---- MODULE Spec2Model ----
(***************************************************************************)
(* The YouTube milestone bot: two periodic tasks (kst_tracker, the fixed   *)
(* 00:00/12:00/17:00 KST sweep, and interval_checker, the per-item custom  *)
(* interval) and the slash commands, all running on one asyncio event loop *)
(* over one SQLite database.  Every `await` of a periodic task is a point  *)
(* where the other task or a command may run, so each task is a step       *)
(* machine with one step per awaited database call, fetch or send.  A      *)
(* command is one action.                                                  *)
(*                                                                         *)
(* Time is counted in minutes since day 0, 00:00 KST.  A stored interval   *)
(* (`hours`) is kept in minutes as well: setinterval(hours=h) stores 60*h. *)
(***************************************************************************)
EXTENDS Integers, Sequences, FiniteSets, TLC

\* ------------------------------------------------------------ bounds
MaxTicks == 1          \* minutes the clock advances in a run
MaxCmds == 2           \* slash commands issued in a run
MaxRestarts == 1       \* process restarts in a run
MaxStoreFailures == 1  \* writes the database refuses in a run
MaxViews == 6          \* invocations of the views command running at once

\* ------------------------------------------------------------ program constants
Million == 1000000     \* views // 1_000_000
HistoryLimit == 10     \* hist[-10:]
JitterMilliMin == 1002 \* timedelta(hours=hours-0.0167): 0.0167 h = 1.002 min
NoChannel == 0         \* alert_ch or 0
Null == -1             \* an SQL NULL / Python None in an integer column
ProximityWindow == 100000 \* 0 < diff <= 100_000

\* ------------------------------------------------------------ the world
Guilds == {"gA", "gB"}
GuildSeq == <<"gA", "gB">>                 \* bot.guilds, in order
Videos == {"v1"}
GuildChannel == [g \in Guilds |-> IF g = "gA" THEN 101 ELSE 102]
ViewSamples == {1200000, 12345678}          \* what the metrics API may return
FetchResults == ViewSamples \cup {Null}    \* Null: fetch_video_stats gave None
IntervalChoices == {0, 2}                  \* setinterval argument, in minutes
PingChoices == {<<>>, <<"@role">>}         \* the `ping` argument, as tokens
StartTime == 17 * 60                       \* the process starts at 17:00 KST
Keys == Videos \X Guilds
Millions == {m \div Million : m \in ViewSamples}

\* the world of the runs that start on a database several guilds have filled
SweepVideos == {"v1", "v2", "v3"}
SweepSamples == {11900000, 12010000}       \* 100,000 and 990,000 short of 12M / 13M
SweepFetchResults == SweepSamples \cup {Null}
SendOutcomes == {TRUE, FALSE}              \* channel.send returns / raises
Delivered == {TRUE}                        \* channel.send returns
StoreOutcomes == {TRUE, FALSE}             \* db_execute returns True / prints the error
Stored == {TRUE}                           \* db_execute returns True
AllKeys == (Videos \cup SweepVideos) \X Guilds
AllMillions == {m \div Million : m \in ViewSamples \cup SweepSamples} \cup {0}
Tasks == {"kst", "iv"}

VARIABLES
    now,          \* wall clock, minutes
    videos,       \* table videos: sequence of rows in rowid order
    intervals,    \* table intervals: function from present keys to rows
    milestones,   \* table milestones: function from present keys to rows
    upcoming_alerts, \* table upcoming_alerts: function from configured guilds to rows
    kst,          \* the running kst_tracker iteration
    iv,           \* the running interval_checker iteration
    kstRan,       \* kst_tracker has run its iteration of this minute
    ivRan,        \* interval_checker has run its iteration of this minute
    ncmd,         \* commands issued so far
    nrestart,     \* restarts so far
    sent,         \* history: milestone alerts sent, per key and million, since the row was written by setmilestone
    fresh,        \* history: keys whose milestones row has not been evaluated since setmilestone created it
    accepted,     \* history: keys with an accepted setinterval, not since disabled or removed
    lastFire,     \* history: per key, <<tick time, duration, views, net>> of the last scheduled interval fire
    evalDone,     \* history: per key, the measurement of the last milestone evaluation, while nothing else touched the row
    msDirty,      \* history: per task, its running evaluation's row was written by somebody else
    sweeps,       \* history: tick times at which a sweep was triggered
    nerr,         \* history: per task, the iterations an exception has ended
    msgs,         \* history: the upcoming summary messages sent, in order
    status,       \* history: per key, what addvideo / removevideo last did to it
    fetching,     \* invocations of the views command awaiting fetch_video_stats
    storeFails,   \* history: the writes of the tasks that the database refused
    fetchFails    \* history: <<key, tick time>> of the interval checker's failed fetches
                  \* for items that have fired before

dbVars == <<videos, intervals, milestones, upcoming_alerts>>
histVars == <<sent, fresh, accepted, lastFire, evalDone, msDirty, sweeps>>
logVars == <<nerr, msgs, status, fetching, storeFails, fetchFails>>
vars == <<now, videos, intervals, milestones, upcoming_alerts, kst, iv, kstRan, ivRan,
          ncmd, nrestart, sent, fresh, accepted, lastFire, evalDone, msDirty, sweeps,
          nerr, msgs, status, fetching, storeFails, fetchFails>>

\* ------------------------------------------------------------ helpers
Hour(t) == (t \div 60) % 24
Minute(t) == t % 60

Range(s) == {s[i] : i \in 1..Len(s)}

RECURSIVE SelectSeqBy(_, _)
\* the subsequence of s whose elements are in the set keep
SelectSeqBy(s, keep) ==
    IF s = <<>> THEN <<>>
    ELSE IF Head(s) \in keep THEN <<Head(s)>> \o SelectSeqBy(Tail(s), keep)
    ELSE SelectSeqBy(Tail(s), keep)

\* hist[:10]
FirstN(s, n) == IF Len(s) <= n THEN s ELSE SubSeq(s, 1, n)

\* hist[-10:]
LastN(s, n) == IF Len(s) <= n THEN s ELSE SubSeq(s, Len(s) - n + 1, Len(s))

\* bot.get_channel(id) / guild.get_channel(id): None unless the channel exists
ChannelExists(c) == \E g \in Guilds : GuildChannel[g] = c
ChannelGuildOf(c) == CHOOSE g \in Guilds : GuildChannel[g] = c

\* INSERT OR REPLACE / plain UPDATE / DELETE on a keyed table
Upsert(tbl, k, row) == [x \in DOMAIN tbl \cup {k} |-> IF x = k THEN row ELSE tbl[x]]
UpdateRow(tbl, k, row) == IF k \in DOMAIN tbl THEN Upsert(tbl, k, row) ELSE tbl
DeleteKeys(tbl, ks) == [x \in DOMAIN tbl \ ks |-> tbl[x]]

\* a row of table intervals with every column at its DEFAULT
DefaultInterval ==
    [hours |-> Null, last_interval_views |-> 0, last_interval_run |-> Null,
     kst_last_views |-> 0, kst_last_run |-> Null, last_views |-> 0,
     view_history |-> <<>>]

\* the videos row addvideo writes in guild g
TrackedRow(v, g) == [video_id |-> v, guild_id |-> g,
                     alert_channel |-> GuildChannel[g], channel_id |-> GuildChannel[g]]

IdleTask == [pc |-> "idle", now |-> 0, rows |-> <<>>, guilds |-> <<>>,
             views |-> Null, ping |-> <<>>, hist |-> <<>>, upcoming |-> <<>>,
             prev |-> 0]

\* SELECT 1 FROM videos WHERE video_id=? AND guild_id=?
VideoTracked(vs, v, g) == \E i \in 1..Len(vs) : vs[i].video_id = v /\ vs[i].guild_id = g

\* on_ready on the database file db: both loops about to run their first iteration
Boot(db) ==
    /\ now = StartTime
    /\ videos = db.videos
    /\ intervals = db.intervals
    /\ milestones = db.milestones
    /\ upcoming_alerts = db.upcoming_alerts
    /\ kst = IdleTask
    /\ iv = IdleTask
    /\ kstRan = FALSE
    /\ ivRan = FALSE
    /\ ncmd = 0
    /\ nrestart = 0
    /\ sent = [k \in AllKeys |-> [m \in AllMillions |-> 0]]
    /\ fresh = {}
    /\ accepted = {k \in DOMAIN db.intervals : db.intervals[k].hours > 0}
    /\ lastFire = [k \in AllKeys |->
                      IF k \in DOMAIN db.intervals /\ db.intervals[k].last_interval_run # Null
                      THEN <<db.intervals[k].last_interval_run, db.intervals[k].hours,
                             db.intervals[k].last_interval_views, Null>>
                      ELSE <<Null, Null, Null, Null>>]
    /\ evalDone = [k \in AllKeys |-> Null]
    /\ msDirty = [t \in Tasks |-> FALSE]
    /\ sweeps = {}
    /\ nerr = [t \in Tasks |-> 0]
    /\ msgs = <<>>
    /\ status = [k \in AllKeys |-> IF VideoTracked(db.videos, k[1], k[2])
                                   THEN "added" ELSE "none"]
    /\ fetching = 0
    /\ storeFails = {}
    /\ fetchFails = {}

NoIntervals == [k \in {} |-> DefaultInterval]
NoMilestones == [k \in {} |-> [ping |-> <<>>, last_million |-> 0]]
NoUpcomingAlerts == [g \in {} |-> [channel_id |-> NoChannel, ping |-> <<>>]]

\* The process starts on its database file (restore_db, init_db): a new one, or one
\* in which guild gA ran addvideo on v1 in an earlier run.
Init ==
    \E vs \in {<<>>, <<TrackedRow("v1", "gA")>>} :
       Boot([videos |-> vs, intervals |-> NoIntervals, milestones |-> NoMilestones,
             upcoming_alerts |-> NoUpcomingAlerts])

\* ------------------------------------------------------------ milestone check
\* str(channel_id) and int(text) on the channel ids of the world
ChanStr(c) == IF c = 101 THEN "101" ELSE IF c = 102 THEN "102" ELSE "0"
ChanInt(s) == IF s = "101" THEN 101 ELSE IF s = "102" THEN 102 ELSE 0

RECURSIVE SplitBar(_)
\* ping_str.split('|') on a string held as a sequence of tokens
SplitBar(s) ==
    IF s = <<>> THEN << <<>> >>
    ELSE LET rest == SplitBar(Tail(s))
         IN  IF Head(s) = "|" THEN << <<>> >> \o rest
             ELSE << <<Head(s)>> \o rest[1] >> \o Tail(rest)

\* f"{ch_id}|{ping}"
PingStr(ch, ping) == <<ChanStr(ch), "|">> \o ping

\* ping_str and ping_str != f"{ping_str.split('|')[0]}|"
PingOk(s) == s # <<>> /\ s # (SplitBar(s)[1] \o <<"|">>)

\* the try block: unpack the two parts, resolve the channel (the interval checker
\* also wants ping_channel.guild.id == int(guild_id)); TRUE when the alert goes out
AlertSends(s, g, sameGuild) ==
    /\ PingOk(s)
    /\ Len(SplitBar(s)) = 2
    /\ Len(SplitBar(s)[1]) = 1
    /\ ChannelExists(ChanInt(SplitBar(s)[1][1]))
    /\ sameGuild => ChannelGuildOf(ChanInt(SplitBar(s)[1][1])) = g

CurrentMillion(views) == views \div Million

\* the comparison with >= in place of >
CrossedOrEqual(cur, last) == cur >= (IF last = Null THEN 0 ELSE last)

\* current_million > (last_million or 0)
Crossed(cur, last) == cur > (IF last = Null THEN 0 ELSE last)

\* history bookkeeping shared by the two tasks' milestone steps
TaskKey(t) ==
    IF t = "kst" THEN <<Head(kst.rows).video_id, Head(kst.rows).guild_id>>
    ELSE <<Head(iv.rows).video_id, Head(iv.guilds)>>
MidEval(t, k) ==
    LET r == IF t = "kst" THEN kst ELSE iv
    IN  r.pc \in {"ms_send", "ms_write"} /\ TaskKey(t) = k

\* ------------------------------------------------------------ upcoming milestones
\* next_m = ((views // 1_000_000) + 1) * 1_000_000; diff = next_m - views
NextMillion(views) == ((views \div Million) + 1) * Million
Remaining(views) == NextMillion(views) - views

\* 0 < diff < 100_000: the window without its upper end
QualifiesBelow(views) == 0 < Remaining(views) /\ Remaining(views) < ProximityWindow

\* if 0 < diff <= 100_000
Qualifies(views) == 0 < Remaining(views) /\ Remaining(views) <= ProximityWindow

\* the line appended to guild_upcoming[guild_id]; its ETA text, computed from the
\* stored view_history, is left out
UpcomingLine(v, views) == [video |-> v, diff |-> Remaining(views), next_m |-> NextMillion(views)]

\* guild_upcoming, a dict in insertion order: a sequence of [guild, lines]
HasEntry(up, g) == \E i \in 1..Len(up) : up[i].guild = g
EntryOf(up, g) == up[CHOOSE i \in 1..Len(up) : up[i].guild = g]
AddUpcoming(up, g, line) ==
    IF HasEntry(up, g)
    THEN [i \in 1..Len(up) |-> IF up[i].guild = g
                               THEN [up[i] EXCEPT !.lines = Append(@, line)] ELSE up[i]]
    ELSE Append(up, [guild |-> g, lines |-> <<line>>])

\* the one message of a summary: a header, the lines joined by newlines, the ping line
UpcomingMessage(t, g, ch, lines, ping) ==
    [task |-> t, guild |-> g, to |-> ch, lines |-> lines, ping |-> ping]

\* ------------------------------------------------------------ exceptions
\* the task's body raised and nothing caught it: discord.py stops the loop
RaisedUncaught == [IdleTask EXCEPT !.pc = "stopped"]

\* except Exception as e: print(...): the iteration is over, the loop goes on
Raised == IdleTask

\* a write of task t on table tbl goes through, or db_execute catches the error of
\* the database, prints it and returns False (which no caller looks at)
StoreOk(ok) == ok \/ Cardinality(storeFails) >= MaxStoreFailures
StoreLog(ok, t, tbl, k, task) ==
    IF StoreOk(ok) THEN storeFails
    ELSE storeFails \cup {[task |-> t, table |-> tbl, key |-> k, views |-> task.views,
                            time |-> task.now,
                            announced |-> sent[k][CurrentMillion(task.views)]]}

\* ------------------------------------------------------------ kst_tracker
\* the early return with `and` in place of `or`
KstShouldRunEither(t) == Minute(t) = 0 \/ Hour(t) \in {0, 12, 17}

\* now.minute != 0 or now.hour not in [0, 12, 17]: return
KstShouldRun(t) == Minute(t) = 0 /\ Hour(t) \in {0, 12, 17}

\* the loop over the videos is over: the summaries, if any guild has a line
KstSummaryStart(t) ==
    IF t.upcoming = <<>> THEN IdleTask
    ELSE [IdleTask EXCEPT !.pc = "summary", !.now = t.now, !.upcoming = t.upcoming]

\* the next video of the sweep t, or the end of its loop
KstNextOf(t) ==
    IF Len(t.rows) > 1
    THEN [t EXCEPT !.pc = "fetch", !.rows = Tail(t.rows), !.views = Null]
    ELSE KstSummaryStart(t)

\* `continue`
KstAdvance == KstNextOf(kst)

\* the end of the loop body: the upcoming check, then the next video
KstUpcoming ==
    LET row == Head(kst.rows)
    IN  KstNextOf(IF Qualifies(kst.views)
                  THEN [kst EXCEPT !.upcoming =
                           AddUpcoming(@, row.guild_id, UpcomingLine(row.video_id, kst.views))]
                  ELSE kst)

KstTick ==
    /\ kst.pc = "idle"
    /\ ~kstRan
    /\ kstRan' = TRUE
    /\ IF KstShouldRun(now)
       THEN /\ sweeps' = sweeps \cup {now}
            /\ kst' = IF videos = <<>> THEN IdleTask
                      ELSE [IdleTask EXCEPT !.pc = "fetch", !.now = now, !.rows = videos]
       ELSE UNCHANGED <<kst, sweeps>>
    /\ UNCHANGED <<now, dbVars, iv, ivRan, ncmd, nrestart,
                   sent, fresh, accepted, lastFire, evalDone, msDirty, logVars>>

\* a failed fetch taken for a measurement of 0
KstFetchedAsZero(r) == [kst EXCEPT !.pc = "stats", !.views = IF r = Null THEN 0 ELSE r]

\* views, likes = await fetch_video_stats(video_id); if views is None: continue
KstFetched(r) == IF r = Null THEN KstAdvance ELSE [kst EXCEPT !.pc = "stats", !.views = r]

KstFetchOf(results) ==
    /\ kst.pc = "fetch"
    /\ \E r \in results : kst' = KstFetched(r)
    /\ UNCHANGED <<now, dbVars, iv, kstRan, ivRan, ncmd, nrestart, histVars, logVars>>

KstFetch == KstFetchOf(FetchResults)

\* kst_last = kst_data[0]['kst_last_views'] if kst_data else 0; the stats message
\* shows views - kst_last unless kst_last is 0
KstPrevViews(k) == IF k \in DOMAIN intervals THEN intervals[k].kst_last_views ELSE 0

\* SELECT kst_last_views, the stats message to the video's alert channel (when
\* bot.get_channel finds it), then SELECT view_history; a send that raises ends
\* the iteration
KstStatsOf(outcomes) ==
    /\ kst.pc = "stats"
    /\ \E ok \in outcomes :
          LET k == TaskKey("kst")
              has == k \in DOMAIN intervals
          IN  IF ChannelExists(Head(kst.rows).alert_channel) /\ ~ok
              THEN /\ kst' = Raised
                   /\ nerr' = [nerr EXCEPT !["kst"] = @ + 1]
              ELSE /\ kst' = [kst EXCEPT !.pc = "hist_write",
                                         !.prev = KstPrevViews(k),
                                         !.hist = IF has THEN intervals[k].view_history
                                                  ELSE <<>>]
                   /\ nerr' = nerr
    /\ UNCHANGED <<now, dbVars, iv, kstRan, ivRan, ncmd, nrestart, histVars, msgs, status, fetching, storeFails, fetchFails>>

KstStats == KstStatsOf(Delivered)

\* an UPDATE that sets the columns of the interval checker as well
KstStoredWithBaseline(row, views, t, hist) ==
    [row EXCEPT !.kst_last_views = views, !.kst_last_run = t, !.last_views = views,
                !.last_interval_views = views, !.last_interval_run = t,
                !.view_history = hist]

\* UPDATE intervals SET kst_last_views=?, kst_last_run=?, last_views=?, view_history=?
KstStored(row, views, t, hist) ==
    [row EXCEPT !.kst_last_views = views, !.kst_last_run = t, !.last_views = views,
                !.view_history = hist]

KstWriteHistOf(outcomes) ==
    /\ kst.pc = "hist_write"
    /\ \E ok \in outcomes :
          LET k == TaskKey("kst")
              hist == LastN(Append(kst.hist, [views |-> kst.views, time |-> kst.now]),
                            HistoryLimit)
          IN  /\ intervals' =
                    IF k \in DOMAIN intervals /\ StoreOk(ok)
                    THEN UpdateRow(intervals, k,
                                   KstStored(intervals[k], kst.views, kst.now, hist))
                    ELSE intervals
              /\ storeFails' = StoreLog(ok, "kst", "intervals", k, kst)
    /\ kst' = [kst EXCEPT !.pc = "ms_read", !.prev = 0]
    /\ UNCHANGED <<now, videos, milestones, upcoming_alerts, iv, kstRan, ivRan, ncmd,
                   nrestart, histVars, nerr, msgs, status, fetching, fetchFails>>

KstWriteHist == KstWriteHistOf(Stored)

KstReadMs ==
    /\ kst.pc = "ms_read"
    /\ LET k == TaskKey("kst")
           has == k \in DOMAIN milestones
           cross == has /\ Crossed(CurrentMillion(kst.views), milestones[k].last_million)
       IN  /\ kst' = IF cross
                     THEN [kst EXCEPT !.pc = "ms_send", !.ping = milestones[k].ping]
                     ELSE KstUpcoming
           /\ fresh' = fresh \ {k}
           /\ msDirty' = [msDirty EXCEPT !["kst"] = FALSE]
           /\ evalDone' = IF has /\ ~cross THEN [evalDone EXCEPT ![k] = kst.views]
                          ELSE evalDone
    /\ UNCHANGED <<now, dbVars, iv, kstRan, ivRan, ncmd, nrestart,
                   sent, accepted, lastFire, sweeps, logVars>>

\* the alert, inside try / except Exception: a send that raises is printed
KstSendAlertOf(outcomes) ==
    /\ kst.pc = "ms_send"
    /\ \E ok \in outcomes :
          LET k == TaskKey("kst")
              m == CurrentMillion(kst.views)
          IN  sent' = IF AlertSends(kst.ping, k[2], FALSE) /\ ok
                      THEN [sent EXCEPT ![k][m] = @ + 1] ELSE sent
    /\ kst' = [kst EXCEPT !.pc = "ms_write"]
    /\ UNCHANGED <<now, dbVars, iv, kstRan, ivRan, ncmd, nrestart,
                   fresh, accepted, lastFire, evalDone, msDirty, sweeps, logVars>>

KstSendAlert == KstSendAlertOf(Delivered)

KstWriteMsOf(outcomes) ==
    /\ kst.pc = "ms_write"
    /\ \E ok \in outcomes :
          LET k == TaskKey("kst")
          IN  /\ milestones' =
                    IF k \in DOMAIN milestones /\ StoreOk(ok)
                    THEN UpdateRow(milestones, k,
                             [milestones[k] EXCEPT !.last_million = CurrentMillion(kst.views)])
                    ELSE milestones
              /\ evalDone' = [evalDone EXCEPT ![k] = IF msDirty["kst"] \/ ~StoreOk(ok)
                                                     THEN Null ELSE kst.views]
              /\ msDirty' = [msDirty EXCEPT !["iv"] = @ \/ MidEval("iv", k)]
              /\ storeFails' = StoreLog(ok, "kst", "milestones", k, kst)
    /\ kst' = KstUpcoming
    /\ UNCHANGED <<now, videos, intervals, upcoming_alerts, iv, kstRan, ivRan, ncmd,
                   nrestart, sent, fresh, accepted, lastFire, sweeps,
                   nerr, msgs, status, fetching, fetchFails>>

KstWriteMs == KstWriteMsOf(Stored)

\* one pass of `for guild_id, upcoming_list in guild_upcoming.items()`: SELECT
\* channel_id, ping FROM upcoming_alerts, bot.get_channel, channel.send; a send
\* that raises ends the iteration
KstSummaryOf(outcomes) ==
    /\ kst.pc = "summary"
    /\ \E ok \in outcomes :
          LET e == Head(kst.upcoming)
              g == e.guild
              sends == /\ g \in DOMAIN upcoming_alerts
                       /\ e.lines # <<>>
                       /\ ChannelExists(upcoming_alerts[g].channel_id)
          IN  IF sends /\ ~ok
              THEN /\ kst' = Raised
                   /\ nerr' = [nerr EXCEPT !["kst"] = @ + 1]
                   /\ msgs' = msgs
              ELSE /\ kst' = IF Len(kst.upcoming) > 1
                             THEN [kst EXCEPT !.upcoming = Tail(@)] ELSE IdleTask
                   /\ nerr' = nerr
                   /\ msgs' = IF sends
                              THEN Append(msgs, UpcomingMessage("kst", g,
                                                  upcoming_alerts[g].channel_id,
                                                  e.lines, upcoming_alerts[g].ping))
                              ELSE msgs
    /\ UNCHANGED <<now, dbVars, iv, kstRan, ivRan, ncmd, nrestart, histVars, status, fetching, storeFails, fetchFails>>

\* ------------------------------------------------------------ interval_checker
\* SELECT ... FROM intervals i JOIN videos v ON i.video_id = v.video_id
\* WHERE i.hours > 0 AND i.guild_id=? AND v.guild_id=?
RECURSIVE IntervalRows(_, _)
IntervalRows(vs, g) ==
    IF vs = <<>> THEN <<>>
    ELSE LET v == Head(vs)
             k == <<v.video_id, g>>
         IN  (IF v.guild_id = g /\ k \in DOMAIN intervals /\ intervals[k].hours > 0
              THEN << [video_id |-> v.video_id, hours |-> intervals[k].hours,
                       guild_id |-> g, alert_channel |-> v.alert_channel] >>
              ELSE <<>>) \o IntervalRows(Tail(vs), g)

\* (now - last_time) < timedelta(hours=hours-0.0167) clears should_run;
\* times and `hours` are in minutes here, compared in thousandths of a minute
ShouldRun(t, last, hours) ==
    IF last = Null THEN TRUE
    ELSE ~((t - last) * 1000 < hours * 1000 - JitterMilliMin)

\* the next pass of `for guild in bot.guilds`, or the end of the iteration
IvAfterSummary(t) ==
    IF Len(t.guilds) > 1
    THEN [IdleTask EXCEPT !.pc = "select", !.now = t.now, !.guilds = Tail(t.guilds),
                          !.upcoming = t.upcoming]
    ELSE IdleTask

\* the rows of the guild are done: its summary when guild_id is in guild_upcoming
\* (the SELECT on upcoming_alerts is without effect otherwise)
IvGuildDone(t) ==
    IF HasEntry(t.upcoming, Head(t.guilds))
    THEN [t EXCEPT !.pc = "summary", !.rows = <<>>, !.views = Null,
                   !.ping = <<>>, !.hist = <<>>, !.prev = 0]
    ELSE IvAfterSummary(t)

\* the guild's loop is over: the next guild, or the end of the iteration
IvNextGuild == IvGuildDone(iv)

\* the next row of the guild of pass t, or the end of its loop
IvNextOf(t) ==
    IF Len(t.rows) > 1
    THEN [t EXCEPT !.pc = "due", !.rows = Tail(t.rows), !.views = Null, !.prev = 0]
    ELSE IvGuildDone(t)

\* `continue`: the next row of this guild
IvAdvance == IvNextOf(iv)

\* the end of the loop body: the upcoming check, then the next row
IvUpcoming ==
    IvNextOf(IF Qualifies(iv.views)
             THEN [iv EXCEPT !.upcoming =
                      AddUpcoming(@, Head(iv.guilds),
                                  UpcomingLine(Head(iv.rows).video_id, iv.views))]
             ELSE iv)

IvTick ==
    /\ iv.pc = "idle"
    /\ ~ivRan
    /\ ivRan' = TRUE
    /\ iv' = [IdleTask EXCEPT !.pc = "select", !.now = now, !.guilds = GuildSeq]
    /\ UNCHANGED <<now, dbVars, kst, kstRan, ncmd, nrestart, histVars, logVars>>

IvSelect ==
    /\ iv.pc = "select"
    /\ LET rows == IntervalRows(videos, Head(iv.guilds))
       IN  iv' = IF rows = <<>> THEN IvNextGuild
                 ELSE [iv EXCEPT !.pc = "due", !.rows = rows]
    /\ UNCHANGED <<now, dbVars, kst, kstRan, ivRan, ncmd, nrestart, histVars, logVars>>

\* prev_views = last_run_data[0]['last_interval_views'] if last_run_data else 0
IvPrevViews(k) == IF k \in DOMAIN intervals THEN intervals[k].last_interval_views ELSE 0

\* the channel checks, then SELECT last_interval_run, last_interval_views and should_run
IvDue ==
    /\ iv.pc = "due"
    /\ LET row == Head(iv.rows)
           g == Head(iv.guilds)
           k == <<row.video_id, g>>
           chanOk == /\ row.guild_id = g
                     /\ ChannelExists(row.alert_channel)
                     /\ ChannelGuildOf(row.alert_channel) = g
           has == k \in DOMAIN intervals
           last == IF has THEN intervals[k].last_interval_run ELSE Null
       IN  iv' = IF chanOk /\ ShouldRun(iv.now, last, row.hours)
                 THEN [iv EXCEPT !.pc = "fetch", !.prev = IvPrevViews(k)]
                 ELSE IvAdvance
    /\ UNCHANGED <<now, dbVars, kst, kstRan, ivRan, ncmd, nrestart, histVars, logVars>>

\* a failed fetch taken for a measurement of 0
IvFetchedAsZero(r) == [iv EXCEPT !.pc = "ms_read", !.views = IF r = Null THEN 0 ELSE r]

\* views, likes = await fetch_video_stats(vid); if views is None: continue
IvFetched(r) == IF r = Null THEN IvAdvance ELSE [iv EXCEPT !.pc = "ms_read", !.views = r]

\* the item has fired before: its row holds the stamp of a fire
Overdue(k) == k \in DOMAIN intervals /\ intervals[k].last_interval_run # Null

IvFetchOf(results) ==
    /\ iv.pc = "fetch"
    /\ \E r \in results :
          /\ iv' = IvFetched(r)
          /\ fetchFails' = IF r = Null /\ Overdue(TaskKey("iv"))
                           THEN fetchFails \cup {<<TaskKey("iv"), iv.now>>}
                           ELSE fetchFails
    /\ UNCHANGED <<now, dbVars, kst, kstRan, ivRan, ncmd, nrestart, histVars,
                   nerr, msgs, status, fetching, storeFails>>

IvFetch == IvFetchOf(FetchResults)

IvReadMs ==
    /\ iv.pc = "ms_read"
    /\ LET k == TaskKey("iv")
           has == k \in DOMAIN milestones
           cross == has /\ Crossed(CurrentMillion(iv.views), milestones[k].last_million)
       IN  /\ iv' = IF cross
                    THEN [iv EXCEPT !.pc = "ms_send", !.ping = milestones[k].ping]
                    ELSE [iv EXCEPT !.pc = "hist_read"]
           /\ fresh' = fresh \ {k}
           /\ msDirty' = [msDirty EXCEPT !["iv"] = FALSE]
           /\ evalDone' = IF has /\ ~cross THEN [evalDone EXCEPT ![k] = iv.views]
                          ELSE evalDone
    /\ UNCHANGED <<now, dbVars, kst, kstRan, ivRan, ncmd, nrestart,
                   sent, accepted, lastFire, sweeps, logVars>>

\* the alert, inside try / except Exception: a send that raises is printed
IvSendAlertOf(outcomes) ==
    /\ iv.pc = "ms_send"
    /\ \E ok \in outcomes :
          LET k == TaskKey("iv")
              m == CurrentMillion(iv.views)
          IN  sent' = IF AlertSends(iv.ping, k[2], TRUE) /\ ok
                      THEN [sent EXCEPT ![k][m] = @ + 1] ELSE sent
    /\ iv' = [iv EXCEPT !.pc = "ms_write"]
    /\ UNCHANGED <<now, dbVars, kst, kstRan, ivRan, ncmd, nrestart,
                   fresh, accepted, lastFire, evalDone, msDirty, sweeps, logVars>>

IvSendAlert == IvSendAlertOf(Delivered)

IvWriteMsOf(outcomes) ==
    /\ iv.pc = "ms_write"
    /\ \E ok \in outcomes :
          LET k == TaskKey("iv")
          IN  /\ milestones' =
                    IF k \in DOMAIN milestones /\ StoreOk(ok)
                    THEN UpdateRow(milestones, k,
                             [milestones[k] EXCEPT !.last_million = CurrentMillion(iv.views)])
                    ELSE milestones
              /\ evalDone' = [evalDone EXCEPT ![k] = IF msDirty["iv"] \/ ~StoreOk(ok)
                                                     THEN Null ELSE iv.views]
              /\ msDirty' = [msDirty EXCEPT !["kst"] = @ \/ MidEval("kst", k)]
              /\ storeFails' = StoreLog(ok, "iv", "milestones", k, iv)
    /\ iv' = [iv EXCEPT !.pc = "hist_read"]
    /\ UNCHANGED <<now, videos, intervals, upcoming_alerts, kst, kstRan, ivRan, ncmd,
                   nrestart, sent, fresh, accepted, lastFire, sweeps,
                   nerr, msgs, status, fetching, fetchFails>>

IvWriteMs == IvWriteMsOf(Stored)

IvReadHist ==
    /\ iv.pc = "hist_read"
    /\ LET k == TaskKey("iv")
       IN  iv' = [iv EXCEPT !.pc = "hist_write",
                            !.hist = IF k \in DOMAIN intervals
                                     THEN intervals[k].view_history ELSE <<>>]
    /\ UNCHANGED <<now, dbVars, kst, kstRan, ivRan, ncmd, nrestart, histVars, logVars>>

\* the stamp at last run + hours, the time the fire was meant for
FireStampIntended(t, last, hours) == IF last = Null THEN t ELSE last + hours

\* last_interval_run = now.isoformat(): the tick time of the pass
FireStamp(t, last, hours) == t

IvWriteHistOf(outcomes) ==
    /\ iv.pc = "hist_write"
    /\ \E ok \in outcomes :
          LET k == TaskKey("iv")
              hist == LastN(Append(iv.hist, [views |-> iv.views, time |-> iv.now]),
                            HistoryLimit)
          IN  /\ intervals' =
                    IF k \in DOMAIN intervals /\ StoreOk(ok)
                    THEN UpdateRow(intervals, k,
                             [intervals[k] EXCEPT
                                 !.last_interval_views = iv.views,
                                 !.last_interval_run =
                                     FireStamp(iv.now, @, Head(iv.rows).hours),
                                 !.view_history = hist])
                    ELSE intervals
              /\ storeFails' = StoreLog(ok, "iv", "intervals", k, iv)
    /\ iv' = [iv EXCEPT !.pc = "send"]
    /\ UNCHANGED <<now, videos, milestones, upcoming_alerts, kst, kstRan, ivRan, ncmd,
                   nrestart, histVars, nerr, msgs, status, fetching, fetchFails>>

IvWriteHist == IvWriteHistOf(Stored)

\* the interval message to the alert channel: the item's scheduled interval fire;
\* a send that raises ends the iteration
IvSendOf(outcomes) ==
    /\ iv.pc = "send"
    /\ \E ok \in outcomes :
          IF ok
          THEN /\ lastFire' = [lastFire EXCEPT
                                  ![TaskKey("iv")] = <<iv.now, Head(iv.rows).hours,
                                                       iv.views, iv.views - iv.prev>>]
               /\ iv' = IvUpcoming
               /\ nerr' = nerr
          ELSE /\ lastFire' = lastFire
               /\ iv' = Raised
               /\ nerr' = [nerr EXCEPT !["iv"] = @ + 1]
    /\ UNCHANGED <<now, dbVars, kst, kstRan, ivRan, ncmd, nrestart,
                   sent, fresh, accepted, evalDone, msDirty, sweeps, msgs, status,
                   fetching, storeFails, fetchFails>>

IvSend == IvSendOf(Delivered)

\* the guild's summary: SELECT channel_id, ping FROM upcoming_alerts,
\* guild.get_channel, the guild check, channel.send; a send that raises ends the
\* iteration
IvSummaryOf(outcomes) ==
    /\ iv.pc = "summary"
    /\ \E ok \in outcomes :
          LET g == Head(iv.guilds)
              e == EntryOf(iv.upcoming, g)
              sends == /\ g \in DOMAIN upcoming_alerts
                       /\ ChannelExists(upcoming_alerts[g].channel_id)
                       /\ ChannelGuildOf(upcoming_alerts[g].channel_id) = g
          IN  IF sends /\ ~ok
              THEN /\ iv' = Raised
                   /\ nerr' = [nerr EXCEPT !["iv"] = @ + 1]
                   /\ msgs' = msgs
              ELSE /\ iv' = IvAfterSummary(iv)
                   /\ nerr' = nerr
                   /\ msgs' = IF sends
                              THEN Append(msgs, UpcomingMessage("iv", g,
                                                  upcoming_alerts[g].channel_id,
                                                  e.lines, upcoming_alerts[g].ping))
                              ELSE msgs
    /\ UNCHANGED <<now, dbVars, kst, kstRan, ivRan, ncmd, nrestart, histVars, status, fetching, storeFails, fetchFails>>

\* ------------------------------------------------------------ commands
\* INSERT INTO videos: video_id is UNIQUE, so the insert fails (db_execute prints
\* the error and returns False) when any guild already holds a row for the video
InsertVideo(vs, row) ==
    IF \E i \in 1..Len(vs) : vs[i].video_id = row.video_id THEN vs
    ELSE Append(vs, row)

\* ensure_video_exists(video_id, guild_id) as setmilestone and setinterval call it
EnsureVideoExists(vs, v, g) ==
    IF VideoTracked(vs, v, g) THEN vs
    ELSE InsertVideo(vs, [video_id |-> v, guild_id |-> g,
                          alert_channel |-> NoChannel, channel_id |-> NoChannel])

\* the tasks whose running milestone evaluation is on one of the keys ks
DirtyBy(ks) ==
    [t \in {"kst", "iv"} |-> msDirty[t] \/ \E k \in ks : MidEval(t, k)]

Cmd ==
    /\ ncmd < MaxCmds
    /\ ncmd' = ncmd + 1
    /\ UNCHANGED <<now, kst, iv, kstRan, ivRan, nrestart, sweeps, nerr, msgs,
                   fetching, storeFails, fetchFails>>

\* what a key's history becomes when a command other than addvideo and removevideo
\* writes rows for it
StatusAfterWrite(k) ==
    [status EXCEPT ![k] = IF @ = "removed" THEN "none"
                          ELSE IF @ = "readded" THEN "added" ELSE @]

AddVideo(g, v) ==
    /\ Cmd
    /\ videos' = IF VideoTracked(videos, v, g) THEN videos
                 ELSE InsertVideo(videos, TrackedRow(v, g))
    /\ status' = [status EXCEPT ![<<v, g>>] = IF @ = "removed" THEN "readded"
                                              ELSE IF @ = "none" THEN "added" ELSE @]
    /\ UNCHANGED <<intervals, milestones, upcoming_alerts, sent, fresh, accepted,
                   lastFire, evalDone, msDirty>>

RemoveVideo(g, v) ==
    /\ Cmd
    /\ LET left == SelectSeqBy(videos, {r \in Range(videos) :
                                          ~(r.video_id = v /\ r.guild_id = g)})
           gone == IF \E i \in 1..Len(left) : left[i].video_id = v THEN {}
                   ELSE {k \in Keys : k[1] = v}
       IN  /\ videos' = left
           /\ intervals' = DeleteKeys(intervals, gone)
           /\ milestones' = DeleteKeys(milestones, gone)
           /\ accepted' = accepted \ (gone \cup {<<v, g>>})
           /\ fresh' = fresh \ gone
           /\ evalDone' = [k \in Keys |-> IF k \in gone THEN Null ELSE evalDone[k]]
           /\ msDirty' = DirtyBy(gone)
    /\ status' = [status EXCEPT ![<<v, g>>] = "removed"]
    /\ UNCHANGED <<upcoming_alerts, sent, lastFire>>

SetMilestone(g, v, ping) ==
    /\ Cmd
    /\ LET k == <<v, g>>
       IN  /\ videos' = EnsureVideoExists(videos, v, g)
           /\ milestones' = Upsert(milestones, k,
                                   [ping |-> PingStr(GuildChannel[g], ping),
                                    last_million |-> 0])
           /\ fresh' = IF k \in DOMAIN milestones THEN fresh ELSE fresh \cup {k}
           /\ sent' = [sent EXCEPT ![k] = [m \in Millions |-> 0]]
           /\ evalDone' = [evalDone EXCEPT ![k] = Null]
           /\ msDirty' = DirtyBy({k})
           /\ status' = StatusAfterWrite(k)
    /\ UNCHANGED <<intervals, upcoming_alerts, accepted, lastFire>>

RemoveMilestones(g, v) ==
    /\ Cmd
    /\ LET k == <<v, g>>
       IN  milestones' = IF k \in DOMAIN milestones
                         THEN UpdateRow(milestones, k, [milestones[k] EXCEPT !.ping = <<>>])
                         ELSE milestones
    /\ UNCHANGED <<videos, intervals, upcoming_alerts, sent, fresh, accepted, lastFire,
                   evalDone, msDirty, status>>

\* hours < 1/60 is refused; h is the argument in minutes
SetInterval(g, v, h) ==
    /\ Cmd
    /\ IF h < 1
       THEN UNCHANGED <<videos, intervals, accepted, status>>
       ELSE /\ videos' = EnsureVideoExists(videos, v, g)
            /\ intervals' = Upsert(intervals, <<v, g>>, [DefaultInterval EXCEPT !.hours = h])
            /\ accepted' = accepted \cup {<<v, g>>}
            /\ status' = StatusAfterWrite(<<v, g>>)
    /\ UNCHANGED <<milestones, upcoming_alerts, sent, fresh, lastFire, evalDone, msDirty>>

DisableInterval(g, v) ==
    /\ Cmd
    /\ LET k == <<v, g>>
       IN  intervals' = IF k \in DOMAIN intervals
                        THEN UpdateRow(intervals, k, [intervals[k] EXCEPT !.hours = 0])
                        ELSE intervals
    /\ accepted' = accepted \ {<<v, g>>}
    /\ UNCHANGED <<videos, milestones, upcoming_alerts, sent, fresh, lastFire, evalDone,
                   msDirty, status>>

\* setupcomingmilestonesalert(channel, ping): the channel is one of the guild
SetUpcomingAlert(g, ping) ==
    /\ Cmd
    /\ upcoming_alerts' = Upsert(upcoming_alerts, g,
                                 [channel_id |-> GuildChannel[g], ping |-> ping])
    /\ UNCHANGED <<videos, intervals, milestones, histVars, status>>

RECURSIVE ForceRows(_, _, _, _, _)
\* the loop of forcecheck (withHist) and of viewsall over the selected videos:
\* `if views:` then INSERT OR REPLACE INTO intervals, every other column at its default
ForceRows(vs, g, f, withHist, tbl) ==
    IF vs = <<>> THEN tbl
    ELSE LET r == f[Head(vs).video_id]
             row == [DefaultInterval EXCEPT
                        !.last_views = r, !.kst_last_views = r,
                        !.view_history = IF withHist
                                         THEN <<[views |-> r, time |-> now]>> ELSE <<>>]
         IN  ForceRows(Tail(vs), g, f, withHist,
                       IF r # Null /\ r # 0
                       THEN Upsert(tbl, <<Head(vs).video_id, g>>, row) ELSE tbl)

ForceCheck(g, f) ==
    /\ Cmd
    /\ intervals' = ForceRows(SelectSeqBy(videos, {r \in Range(videos) :
                                                     r.channel_id = GuildChannel[g]}),
                              g, f, TRUE, intervals)
    /\ UNCHANGED <<videos, milestones, upcoming_alerts, sent, fresh, accepted, lastFire,
                   evalDone, msDirty, status>>

ViewsAll(g, f) ==
    /\ Cmd
    /\ intervals' = ForceRows(SelectSeqBy(videos, {r \in Range(videos) : r.guild_id = g}),
                              g, f, FALSE, intervals)
    /\ UNCHANGED <<videos, milestones, upcoming_alerts, sent, fresh, accepted, lastFire,
                   evalDone, msDirty, status>>

\* SELECT ... FROM intervals i JOIN videos v ON i.video_id = v.video_id
\* WHERE i.hours > 0 AND v.guild_id=? : the join does not compare i.guild_id
RECURSIVE CheckRowsOf(_, _)
CheckRowsOf(v, gs) ==
    IF gs = <<>> THEN <<>>
    ELSE LET k == <<v.video_id, Head(gs)>>
         IN  (IF k \in DOMAIN intervals /\ intervals[k].hours > 0
              THEN << [video_id |-> v.video_id, hours |-> intervals[k].hours,
                       alert_channel |-> v.alert_channel] >>
              ELSE <<>>) \o CheckRowsOf(v, Tail(gs))

RECURSIVE CheckRows(_, _)
CheckRows(vs, g) ==
    IF vs = <<>> THEN <<>>
    ELSE (IF Head(vs).guild_id = g THEN CheckRowsOf(Head(vs), GuildSeq) ELSE <<>>)
         \o CheckRows(Tail(vs), g)

\* one pass of the loop of checkintervals on `row`, the fetch giving r; st holds the
\* tables and the history so far, st.ok is FALSE once the command has raised
CheckOne(row, g, r, st) ==
    IF ~st.ok \/ ~ChannelExists(row.alert_channel) \/ r = Null THEN st
    ELSE LET k == <<row.video_id, g>>
             has == k \in DOMAIN st.ms
             cur == CurrentMillion(r)
             cross == has /\ Crossed(cur, st.ms[k].last_million)
             evald == [st EXCEPT
                 !.ms = IF cross THEN Upsert(@, k, [@[k] EXCEPT !.last_million = cur]) ELSE @,
                 !.sent = IF cross /\ AlertSends(st.ms[k].ping, g, FALSE)
                          THEN [@ EXCEPT ![k][cur] = @ + 1] ELSE @,
                 !.fresh = @ \ {k},
                 !.done = IF has THEN [@ EXCEPT ![k] = r] ELSE @,
                 !.wrote = IF cross THEN @ \cup {k} ELSE @]
         IN  \* prev_data falls back to a list holding a tuple, which cannot be
             \* indexed by column name: the command raises when the row is missing
             IF k \notin DOMAIN st.ivs THEN [evald EXCEPT !.ok = FALSE]
             ELSE [evald EXCEPT !.ivs = Upsert(@, k, [@[k] EXCEPT
                                                  !.last_interval_views = r,
                                                  !.last_interval_run = now])]

RECURSIVE CheckLoop(_, _, _, _, _)
CheckLoop(rows, i, g, f, st) ==
    IF i > Len(rows) THEN st
    ELSE CheckLoop(rows, i + 1, g, f, CheckOne(rows[i], g, f[i], st))

CheckIntervals(g, f) ==
    /\ Cmd
    /\ LET st == CheckLoop(CheckRows(videos, g), 1, g, f,
                           [ms |-> milestones, ivs |-> intervals, sent |-> sent,
                            fresh |-> fresh, done |-> evalDone, wrote |-> {}, ok |-> TRUE])
       IN  /\ milestones' = st.ms
           /\ intervals' = st.ivs
           /\ sent' = st.sent
           /\ fresh' = st.fresh
           /\ evalDone' = st.done
           /\ msDirty' = DirtyBy(st.wrote)
    /\ UNCHANGED <<videos, upcoming_alerts, accepted, lastFire, status>>

\* /views: views, likes = await fetch_video_stats(video_id) is awaited with nothing
\* around it; the reply follows when the request returns
ViewsStart ==
    /\ fetching < MaxViews
    /\ fetching' = fetching + 1
    /\ UNCHANGED <<now, dbVars, kst, iv, kstRan, ivRan, ncmd, nrestart, histVars,
                   nerr, msgs, status, storeFails, fetchFails>>

ViewsDone ==
    /\ fetching > 0
    /\ fetching' = fetching - 1
    /\ UNCHANGED <<now, dbVars, kst, iv, kstRan, ivRan, ncmd, nrestart, histVars,
                   nerr, msgs, status, storeFails, fetchFails>>

\* the requests of fetch_video_stats that have not returned yet
InFlight ==
    fetching + (IF kst.pc = "fetch" THEN 1 ELSE 0) + (IF iv.pc = "fetch" THEN 1 ELSE 0)

\* the clock advances one minute; each @tasks.loop(minutes=1) may run again
Tick ==
    /\ now < StartTime + MaxTicks
    /\ now' = now + 1
    /\ kstRan' = FALSE
    /\ ivRan' = FALSE
    /\ UNCHANGED <<dbVars, kst, iv, ncmd, nrestart, histVars, logVars>>

\* the process dies and starts again: the database stays, the running iterations
\* are lost, and on_ready starts both loops, whose first iteration runs at once
Restart ==
    /\ nrestart < MaxRestarts
    /\ nrestart' = nrestart + 1
    /\ kst' = IdleTask
    /\ iv' = IdleTask
    /\ kstRan' = FALSE
    /\ ivRan' = FALSE
    /\ msDirty' = [t \in {"kst", "iv"} |-> FALSE]
    /\ UNCHANGED <<now, dbVars, ncmd, sent, fresh, accepted, lastFire, evalDone, sweeps,
                   logVars>>

Next ==
    \/ Tick
    \/ Restart
    \/ KstTick \/ KstFetch \/ KstStats \/ KstWriteHist
    \/ KstReadMs \/ KstSendAlert \/ KstWriteMs
    \/ IvTick \/ IvSelect \/ IvDue \/ IvFetch \/ IvReadMs \/ IvSendAlert
    \/ IvWriteMs \/ IvReadHist \/ IvWriteHist \/ IvSend
    \/ \E g \in Guilds, v \in Videos :
          \/ AddVideo(g, v)
          \/ RemoveVideo(g, v)
          \/ RemoveMilestones(g, v)
          \/ DisableInterval(g, v)
          \/ \E ping \in PingChoices : SetMilestone(g, v, ping)
          \/ \E h \in IntervalChoices : SetInterval(g, v, h)
    \/ \E g \in Guilds, f \in [Videos -> FetchResults] :
          \/ ForceCheck(g, f)
          \/ ViewsAll(g, f)
    \/ \E g \in Guilds, f \in [1..Cardinality(Keys) -> FetchResults] :
          CheckIntervals(g, f)

\* No measurement of ViewSamples is within 100,000 of a million, so no summary of
\* upcoming milestones is due in a run of Spec, and every send is delivered.
Spec == Init /\ [][Next]_vars

\* ------------------------------------------------------------ the tasks on a filled database
\* a database an earlier run has left: gA tracks v1 and v2, gB tracks v3; v3 has an
\* interval of 2 minutes, the intervals of v1 and v2 are disabled, v3 has milestone
\* alerts at 11M, both guilds have set up the upcoming summary, gA with a ping text
SweepVideosTable ==
    <<TrackedRow("v1", "gA"), TrackedRow("v2", "gA"), TrackedRow("v3", "gB")>>
SweepIntervals ==
    [k \in {<<"v1", "gA">>, <<"v2", "gA">>, <<"v3", "gB">>} |->
        [DefaultInterval EXCEPT !.hours = IF k[1] = "v3" THEN 2 ELSE 0]]
SweepMilestones ==
    [k \in {<<"v3", "gB">>} |-> [ping |-> PingStr(GuildChannel["gB"], <<"@role">>),
                                 last_million |-> 11]]

\* gA's summary channel: the guild's channel, or one that was deleted since
SweepAlertChannels == {GuildChannel["gA"], 999}
SweepUpcomingAlerts(ch) ==
    [g \in Guilds |-> IF g = "gA" THEN [channel_id |-> ch, ping |-> <<"@here">>]
                      ELSE [channel_id |-> GuildChannel[g], ping |-> <<>>]]

SweepInit ==
    \E ch \in SweepAlertChannels :
       Boot([videos |-> SweepVideosTable, intervals |-> SweepIntervals,
             milestones |-> SweepMilestones, upcoming_alerts |-> SweepUpcomingAlerts(ch)])

\* the two tasks alone, measurements near a million, sends that may raise
SweepNext ==
    \/ Tick
    \/ KstTick \/ KstFetchOf(SweepFetchResults) \/ KstStatsOf(SendOutcomes)
    \/ KstWriteHist \/ KstReadMs \/ KstSendAlertOf(SendOutcomes) \/ KstWriteMs
    \/ KstSummaryOf(SendOutcomes)
    \/ IvTick \/ IvSelect \/ IvDue \/ IvFetchOf(SweepFetchResults) \/ IvReadMs
    \/ IvSendAlertOf(SendOutcomes) \/ IvWriteMs \/ IvReadHist \/ IvWriteHist
    \/ IvSendOf(SendOutcomes) \/ IvSummaryOf(SendOutcomes)

SweepSpec == SweepInit /\ [][SweepNext]_vars

\* ------------------------------------------------------------ an overdue interval
\* the database of SweepSpec with gA's channel in place, after the process was down
\* for a while: the interval of v3 is 3 minutes, it has fired nine times from 16:26
\* to 16:50, and no sweep has run on it
PastFires ==
    [j \in 1..9 |-> [views |-> 11800000 + 1000 * j, time |-> StartTime - 37 + 3 * j]]
OverdueIntervals ==
    [k \in {<<"v1", "gA">>, <<"v2", "gA">>, <<"v3", "gB">>} |->
        IF k[1] = "v3"
        THEN [DefaultInterval EXCEPT !.hours = 3,
                                     !.last_interval_views = PastFires[9].views,
                                     !.last_interval_run = PastFires[9].time,
                                     !.view_history = PastFires]
        ELSE [DefaultInterval EXCEPT !.hours = 0]]
OverdueDb ==
    [videos |-> SweepVideosTable, intervals |-> OverdueIntervals,
     milestones |-> SweepMilestones,
     upcoming_alerts |-> SweepUpcomingAlerts(GuildChannel["gA"])]

FireInit == Boot(OverdueDb)

FireSpec == FireInit /\ [][SweepNext]_vars

\* ------------------------------------------------------------ requests in flight
\* the two tasks, every send delivered, and users who run /views
FetchNext ==
    \/ Tick
    \/ KstTick \/ KstFetchOf(SweepFetchResults) \/ KstStats \/ KstWriteHist
    \/ KstReadMs \/ KstSendAlert \/ KstWriteMs \/ KstSummaryOf(Delivered)
    \/ IvTick \/ IvSelect \/ IvDue \/ IvFetchOf(SweepFetchResults) \/ IvReadMs
    \/ IvSendAlert \/ IvWriteMs \/ IvReadHist \/ IvWriteHist \/ IvSend
    \/ IvSummaryOf(Delivered)
    \/ ViewsStart
    \/ ViewsDone

FetchSpec == FireInit /\ [][FetchNext]_vars

\* ------------------------------------------------------------ writes the database refuses
\* the two tasks on the database of SweepSpec, every send delivered, and writes of
\* the tasks that db_execute reports as failed
StoreInit ==
    Boot([videos |-> SweepVideosTable, intervals |-> SweepIntervals,
          milestones |-> SweepMilestones,
          upcoming_alerts |-> SweepUpcomingAlerts(GuildChannel["gA"])])

StoreNext ==
    \/ Tick
    \/ KstTick \/ KstFetchOf(SweepFetchResults) \/ KstStats
    \/ KstWriteHistOf(StoreOutcomes) \/ KstReadMs \/ KstSendAlert
    \/ KstWriteMsOf(StoreOutcomes) \/ KstSummaryOf(Delivered)
    \/ IvTick \/ IvSelect \/ IvDue \/ IvFetchOf(SweepFetchResults) \/ IvReadMs
    \/ IvSendAlert \/ IvWriteMsOf(StoreOutcomes) \/ IvReadHist
    \/ IvWriteHistOf(StoreOutcomes) \/ IvSend \/ IvSummaryOf(Delivered)

StoreSpec == StoreInit /\ [][StoreNext]_vars

\* ------------------------------------------------------------ the commands on a filled database
\* a database an earlier run has left: gA tracks v1, and either gA has set an interval
\* of 2 minutes on it that has fired once, or gB has run setmilestone on it, or gA
\* has and the first million was announced
FiredInterval ==
    [k \in {<<"v1", "gA">>} |->
        [DefaultInterval EXCEPT
            !.hours = 2, !.last_interval_views = 1200000,
            !.last_interval_run = StartTime - 2,
            !.view_history = <<[views |-> 1200000, time |-> StartTime - 2]>>]]
ForeignMilestone ==
    [k \in {<<"v1", "gB">>} |-> [ping |-> PingStr(GuildChannel["gB"], <<"@role">>),
                                 last_million |-> 0]]
\* gA has run setmilestone on v1 and its first million has been announced
AnnouncedMilestone ==
    [k \in {<<"v1", "gA">>} |-> [ping |-> PingStr(GuildChannel["gA"], <<"@role">>),
                                 last_million |-> 1]]

CmdInit ==
    \E db \in {[videos |-> <<TrackedRow("v1", "gA")>>, intervals |-> FiredInterval,
                 milestones |-> NoMilestones, upcoming_alerts |-> NoUpcomingAlerts],
                [videos |-> <<TrackedRow("v1", "gA")>>, intervals |-> NoIntervals,
                 milestones |-> ForeignMilestone, upcoming_alerts |-> NoUpcomingAlerts],
                [videos |-> <<TrackedRow("v1", "gA")>>, intervals |-> NoIntervals,
                 milestones |-> AnnouncedMilestone,
                 upcoming_alerts |-> NoUpcomingAlerts]} :
       Boot(db)

\* the commands alone
CmdNext ==
    \/ \E g \in Guilds, v \in Videos :
          \/ AddVideo(g, v)
          \/ RemoveVideo(g, v)
          \/ RemoveMilestones(g, v)
          \/ DisableInterval(g, v)
          \/ \E ping \in PingChoices : SetMilestone(g, v, ping)
          \/ \E h \in IntervalChoices : SetInterval(g, v, h)
    \/ \E g \in Guilds, ping \in PingChoices : SetUpcomingAlert(g, ping)
    \/ \E g \in Guilds, f \in [Videos -> FetchResults] :
          \/ ForceCheck(g, f)
          \/ ViewsAll(g, f)
    \/ \E g \in Guilds, f \in [1..Cardinality(Keys) -> FetchResults] :
          CheckIntervals(g, f)

CmdSpec == CmdInit /\ [][CmdNext]_vars

\* ------------------------------------------------------------ the claims
\* steps of the tasks, told from the other steps by what they change
KstReadMsStep == kst.pc = "ms_read" /\ kst' # kst /\ nrestart' = nrestart
IvReadMsStep == iv.pc = "ms_read" /\ iv' # iv /\ nrestart' = nrestart
KstSendAlertStep == kst.pc = "ms_send" /\ kst' # kst /\ nrestart' = nrestart
IvSendAlertStep == iv.pc = "ms_send" /\ iv' # iv /\ nrestart' = nrestart
KstWriteMsStep == kst.pc = "ms_write" /\ kst' # kst /\ nrestart' = nrestart
IvWriteMsStep == iv.pc = "ms_write" /\ iv' # iv /\ nrestart' = nrestart
IvSelectStep == iv.pc = "select" /\ iv' # iv /\ nrestart' = nrestart
IvSendStep == iv.pc = "send" /\ iv' # iv /\ nrestart' = nrestart
KstWriteHistStep == kst.pc = "hist_write" /\ kst' # kst /\ nrestart' = nrestart
IvWriteHistStep == iv.pc = "hist_write" /\ iv' # iv /\ nrestart' = nrestart
IvDueStep == iv.pc = "due" /\ iv' # iv /\ nrestart' = nrestart
SweepStartStep == ~kstRan /\ kstRan' /\ kst'.pc = "fetch"

\* C1: as long as the process has not restarted, whatever the interleaving of the
\* sweep, the interval checker and checkintervals on an item, no million of the item
\* is announced twice, and a task that advances the watermark of a row nobody else
\* wrote meanwhile, with a ping text configured, has announced that million.
C1_ExactlyOneAlert ==
    [][ nrestart' = 0 =>
          /\ \A k \in Keys, m \in Millions : sent'[k][m] <= 1
          /\ (KstWriteMsStep /\ ~msDirty["kst"]
                 /\ AlertSends(kst.ping, TaskKey("kst")[2], FALSE))
                => sent[TaskKey("kst")][CurrentMillion(kst.views)] >= 1
          /\ (IvWriteMsStep /\ ~msDirty["iv"]
                 /\ AlertSends(iv.ping, TaskKey("iv")[2], TRUE))
                => sent[TaskKey("iv")][CurrentMillion(iv.views)] >= 1 ]_vars

\* C2: for a fetched measurement m of an item with a milestones row, whatever its ping
\* text, the alert goes out exactly when m // 1,000,000 > last_million, and the write
\* that follows leaves last_million = m // 1,000,000.
C2_AlertIffCrossed ==
    [][ /\ KstReadMsStep /\ TaskKey("kst") \in DOMAIN milestones
           => (kst'.pc = "ms_send"
                 <=> CurrentMillion(kst.views) > milestones[TaskKey("kst")].last_million)
        /\ IvReadMsStep /\ TaskKey("iv") \in DOMAIN milestones
           => (iv'.pc = "ms_send"
                 <=> CurrentMillion(iv.views) > milestones[TaskKey("iv")].last_million)
        /\ KstSendAlertStep =>
              sent'[TaskKey("kst")][CurrentMillion(kst.views)]
                 = sent[TaskKey("kst")][CurrentMillion(kst.views)] + 1
        /\ IvSendAlertStep =>
              sent'[TaskKey("iv")][CurrentMillion(iv.views)]
                 = sent[TaskKey("iv")][CurrentMillion(iv.views)] + 1
        /\ KstWriteMsStep /\ TaskKey("kst") \in DOMAIN milestones
           => milestones'[TaskKey("kst")].last_million = CurrentMillion(kst.views)
        /\ IvWriteMsStep /\ TaskKey("iv") \in DOMAIN milestones
           => milestones'[TaskKey("iv")].last_million = CurrentMillion(iv.views) ]_vars

\* C3: no milestone write of the sweep or of the interval checker lowers an item's
\* last_million, however the two are interleaved and whatever the order in which the
\* measurements arrive.
C3_WatermarkNeverDecreases ==
    [][ (KstWriteMsStep \/ IvWriteMsStep) =>
           \A k \in DOMAIN milestones :
              /\ k \in DOMAIN milestones'
              /\ milestones'[k].last_million >= milestones[k].last_million ]_vars

\* C4: a milestone evaluation of an item whose measurement is the one of the
\* evaluation just before it, nothing else having touched the item's milestones row
\* from the start of that evaluation on, sends no alert and writes nothing.
C4_RepeatedEvaluationIsSilent ==
    [][ /\ (KstReadMsStep /\ evalDone[TaskKey("kst")] = kst.views)
           => (kst'.pc # "ms_send" /\ milestones' = milestones /\ sent' = sent)
        /\ (IvReadMsStep /\ evalDone[TaskKey("iv")] = iv.views)
           => (iv'.pc # "ms_send" /\ milestones' = milestones /\ sent' = sent) ]_vars

\* C4 witness: the interval checker is about to evaluate an item with the very
\* measurement whose million the evaluation before it announced and stored.
C4_Witness ==
    /\ iv.pc = "ms_read"
    /\ TaskKey("iv") \in DOMAIN milestones
    /\ evalDone[TaskKey("iv")] = iv.views
    /\ milestones[TaskKey("iv")].last_million = CurrentMillion(iv.views)
    /\ sent[TaskKey("iv")][CurrentMillion(iv.views)] = 1

\* C5: the first evaluation of an item after setmilestone created its milestones row
\* sends no milestone alert.
C5_NoAlertOnFirstMeasurement ==
    [][ /\ (KstReadMsStep /\ TaskKey("kst") \in fresh)
           => ~(kst'.pc = "ms_send" /\ AlertSends(kst'.ping, TaskKey("kst")[2], FALSE))
        /\ (IvReadMsStep /\ TaskKey("iv") \in fresh)
           => ~(iv'.pc = "ms_send" /\ AlertSends(iv'.ping, TaskKey("iv")[2], TRUE)) ]_vars

\* C6: a sweep is triggered at most once per checkpoint minute of a date, also
\* across a restart of the process.
C6_OneSweepPerCheckpoint ==
    [][ SweepStartStep => now \notin sweeps ]_vars

\* C7: a sweep runs, and stamps kst_last_run, only for a tick whose KST time has
\* minute 0 and hour 0, 12 or 17; a later tick never makes up for a missed checkpoint.
C7_SweepOnlyAtCheckpoint ==
    LET AtCheckpoint(t) == t % 60 = 0 /\ ((t \div 60) % 24) \in {0, 12, 17}
    IN  /\ kst.pc # "idle" => AtCheckpoint(kst.now)
        /\ \A t \in sweeps : AtCheckpoint(t)
        /\ \A k \in DOMAIN intervals :
              intervals[k].kst_last_run # Null => AtCheckpoint(intervals[k].kst_last_run)

\* C7 witness: the minute after the checkpoint, the sweep triggered at the checkpoint
\* is still at work and has stamped an item.
C7_Witness ==
    /\ kst.pc = "ms_read"
    /\ kst.now \in sweeps
    /\ now > kst.now
    /\ \E k \in DOMAIN intervals : intervals[k].kst_last_run = kst.now

\* C8: a scheduled interval fire of an item whose last scheduled fire was at tick
\* time T with duration d happens at a tick time >= T + d.
C8_NoFireBeforeDue ==
    [][ (IvSendStep /\ lastFire[TaskKey("iv")][1] # Null)
           => iv.now >= lastFire[TaskKey("iv")][1] + lastFire[TaskKey("iv")][2] ]_vars

\* C9: every pass of the interval checker over a guild picks up every item of the
\* guild whose setinterval was accepted and which was not disabled or removed since
\* (an item a pass does not pick up cannot fire, however due it is).
C9_AcceptedIntervalIsPickedUp ==
    [][ IvSelectStep =>
           \A v \in Videos :
              <<v, Head(iv.guilds)>> \in accepted
                 => /\ iv'.pc = "due"
                    /\ \E i \in 1..Len(iv'.rows) : iv'.rows[i].video_id = v ]_vars

\* C10: disableinterval leaves the item's view_history, last_interval_views and
\* last_interval_run as they were, and the interval checker sends no interval
\* message for an item whose interval is disabled.
C10_DisabledNeverFires ==
    [][ /\ \A k \in DOMAIN intervals :
              (k \in DOMAIN intervals' /\ intervals[k].hours # 0 /\ intervals'[k].hours = 0)
                 => /\ intervals'[k].view_history = intervals[k].view_history
                    /\ intervals'[k].last_interval_views = intervals[k].last_interval_views
                    /\ intervals'[k].last_interval_run = intervals[k].last_interval_run
        /\ IvSendStep =>
              ~(TaskKey("iv") \in DOMAIN intervals /\ intervals[TaskKey("iv")].hours = 0) ]_vars

\* ------------------------------------------------------------ the claims on the filled databases
\* more steps of the tasks
KstFetchStep == kst.pc = "fetch" /\ kst' # kst
IvFetchStep == iv.pc = "fetch" /\ iv' # iv
KstStatsStep == kst.pc = "stats" /\ kst' # kst
KstSummaryStep == kst.pc = "summary" /\ kst' # kst
IvSummaryStep == iv.pc = "summary" /\ iv' # iv
KstItemDoneStep == kst.pc \in {"ms_read", "ms_write"} /\ kst' # kst /\ kst'.pc # "ms_send"
Listed(up, v, g) ==
    \E i \in 1..Len(up) :
       up[i].guild = g /\ \E j \in 1..Len(up[i].lines) : up[i].lines[j].video = v
Measured == ViewSamples \cup SweepSamples

\* C11: a setinterval that enables an item whose interval is disabled leaves the
\* item's view_history as it was.
C11_ReenableKeepsHistory ==
    [][ \A k \in DOMAIN intervals :
           (k \in DOMAIN intervals' /\ intervals[k].hours = 0 /\ intervals'[k].hours > 0)
              => intervals'[k].view_history = intervals[k].view_history ]_vars

\* C12: a fetch that fails in a sweep or an interval pass changes no stored value,
\* sends nothing and lists nothing for the item, and the task goes on to the next
\* item; no task ever works with, and no history ever holds, a measurement the
\* metrics API did not return (a failure is not a measurement of 0).
C12_FailedFetchSkipsItem ==
    /\ [](/\ kst.pc \in {"stats", "hist_write", "ms_read", "ms_send", "ms_write"}
             => kst.views \in Measured
          /\ iv.pc \in {"ms_read", "ms_send", "ms_write", "hist_read", "hist_write", "send"}
             => iv.views \in Measured
          /\ \A k \in DOMAIN intervals :
                \A i \in 1..Len(intervals[k].view_history) :
                   intervals[k].view_history[i].views \in Measured)
    /\ [][ /\ (KstFetchStep /\ kst'.views = Null)
              => /\ UNCHANGED <<videos, intervals, milestones, sent, msgs>>
                 /\ kst'.upcoming = kst.upcoming
                 /\ kst'.pc \in {"fetch", "summary", "idle"}
                 /\ kst'.pc = "fetch" => kst'.rows = Tail(kst.rows)
           /\ (IvFetchStep /\ iv'.views = Null)
              => /\ UNCHANGED <<videos, intervals, milestones, sent, msgs, lastFire>>
                 /\ iv'.upcoming = iv.upcoming
                 /\ iv'.pc \in {"due", "summary", "select", "idle"}
                 /\ iv'.pc = "due" => iv'.rows = Tail(iv.rows) ]_vars

\* C12 witness: the sweep is at its second video after the fetch of the first one,
\* v1, failed: nothing of v1 was stamped, and no exception ended anything.
C12_Witness ==
    /\ kst.pc = "fetch"
    /\ Head(kst.rows).video_id = "v2"
    /\ nerr["kst"] = 0
    /\ <<"v1", "gA">> \in DOMAIN intervals
    /\ intervals[<<"v1", "gA">>].kst_last_run = Null
    /\ intervals[<<"v1", "gA">>].view_history = <<>>

\* C13: whether its send is delivered or raises, a step that sends a message about
\* an item (the stats message of the sweep, a milestone alert, the interval
\* message) ends no iteration, and after the stats message the sweep goes on to
\* store the measurement.
C13_SendFailureKeepsGoing ==
    [][ /\ (KstStatsStep \/ KstSendAlertStep \/ IvSendAlertStep \/ IvSendStep)
              => nerr' = nerr
        /\ KstStatsStep => kst'.pc = "hist_write"
        /\ KstSendAlertStep => kst'.pc = "ms_write"
        /\ IvSendAlertStep => iv'.pc = "ms_write"
        /\ (IvSendStep /\ Len(iv.rows) > 1)
              => (iv'.pc = "due" /\ iv'.rows = Tail(iv.rows)) ]_vars

\* C14: no task is ever stopped: whatever failed in an iteration, the task is back
\* at rest or at work, and its loop runs the iteration of the next minute.
C14_SchedulersSurvive ==
    /\ kst.pc \in {"idle", "fetch", "stats", "hist_write", "ms_read", "ms_send",
                   "ms_write", "summary"}
    /\ iv.pc \in {"idle", "select", "due", "fetch", "ms_read", "ms_send", "ms_write",
                  "hist_read", "hist_write", "send", "summary"}

\* C14 witness: an exception has ended an iteration of each task at 17:00, and at
\* 17:01 the sweep task has run its iteration and the interval pass is at work.
C14_Witness ==
    /\ nerr["kst"] >= 1
    /\ nerr["iv"] >= 1
    /\ now > StartTime
    /\ kstRan
    /\ kst.pc = "idle"
    /\ iv.pc \notin {"idle", "stopped"}
    /\ iv.now = now

\* C15: a summary of k lines goes out as k messages, followed by one message with
\* the ping when the configured ping text is not empty.
C15_OneMessagePerItem ==
    [][ /\ (KstSummaryStep /\ msgs' # msgs)
           => Len(msgs') - Len(msgs)
                 = Len(Head(kst.upcoming).lines)
                   + (IF upcoming_alerts[Head(kst.upcoming).guild].ping = <<>> THEN 0 ELSE 1)
        /\ (IvSummaryStep /\ msgs' # msgs)
           => Len(msgs') - Len(msgs)
                 = Len(EntryOf(iv.upcoming, Head(iv.guilds)).lines)
                   + (IF upcoming_alerts[Head(iv.guilds)].ping = <<>> THEN 0 ELSE 1) ]_vars

C17_OtherSummariesStillSent ==
    [][ (KstSummaryStep /\ Len(kst.upcoming) > 1)
           => (kst'.pc = "summary" /\ kst'.upcoming = Tail(kst.upcoming)) ]_vars

\* C18: when addvideo(v) has run in every guild, and removevideo(v) in none since,
\* the videos table holds a row of v for every guild.
C18_BothTenantsTracked ==
    \A v \in Videos :
       (\A g \in Guilds : status[<<v, g>>] \in {"added", "readded"})
          => \A g \in Guilds : VideoTracked(videos, v, g)

\* C19: from removevideo(v) in guild G on, until a command writes rows for (v, G)
\* again, no intervals row and no milestones row is keyed (v, G).
C19_RemoveCascades ==
    \A k \in Keys :
       status[k] = "removed" => (k \notin DOMAIN intervals /\ k \notin DOMAIN milestones)

\* C20: after removevideo(v) and then addvideo(v) in guild G, with no setmilestone
\* on (v, G) since, there is no milestones row keyed (v, G).
C20_ReaddStartsFresh ==
    \A k \in Keys : status[k] = "readded" => k \notin DOMAIN milestones

\* C21: when the sweep and the interval checker update the intervals row of the
\* same item, no update is lost: a write of either task to a history that is not
\* full keeps every sample the row holds, and leaves the other task's measurement
\* column alone.
C21_NoLostUpdate ==
    [][ /\ (KstWriteHistStep /\ TaskKey("kst") \in DOMAIN intervals) =>
              LET k == TaskKey("kst")
              IN  /\ intervals'[k].last_interval_views = intervals[k].last_interval_views
                  /\ Len(intervals[k].view_history) < HistoryLimit =>
                        Range(intervals[k].view_history)
                           \subseteq Range(intervals'[k].view_history)
        /\ (IvWriteHistStep /\ TaskKey("iv") \in DOMAIN intervals) =>
              LET k == TaskKey("iv")
              IN  /\ intervals'[k].kst_last_views = intervals[k].kst_last_views
                  /\ Len(intervals[k].view_history) < HistoryLimit =>
                        Range(intervals[k].view_history)
                           \subseteq Range(intervals'[k].view_history) ]_vars

\* C22: in every state the requests for metrics in flight, counted over the sweep,
\* the interval checker and the commands running, are at most 5.
C22_FetchesBounded == InFlight <= 5

\* C23: the sweep stores the measurement it has fetched for an item addvideo has
\* created, as the item's kst_last_views, for the next sweep to subtract.
C23_SweepStoresMeasurement ==
    [][ (KstWriteHistStep /\ VideoTracked(videos, TaskKey("kst")[1], TaskKey("kst")[2]))
           => /\ TaskKey("kst") \in DOMAIN intervals'
              /\ intervals'[TaskKey("kst")].kst_last_views = kst.views ]_vars

\* C24: the fire of an interval leaves last_interval_views = the fetched views and
\* last_interval_run = the tick time of the pass, and for an item that has fired
\* before and still has its row it reports net = fetched - the views stored at the
\* previous fire (or the measurement a checkintervals has stored since).
C24_NetSincePreviousFire ==
    [][ /\ (IvWriteHistStep /\ TaskKey("iv") \in DOMAIN intervals) =>
              /\ intervals'[TaskKey("iv")].last_interval_views = iv.views
              /\ intervals'[TaskKey("iv")].last_interval_run = iv.now
        /\ (IvSendStep /\ lastFire[TaskKey("iv")][1] # Null
               /\ TaskKey("iv") \in DOMAIN intervals) =>
              LET net == lastFire'[TaskKey("iv")][4]
              IN  \/ net = iv.views - lastFire[TaskKey("iv")][3]
                  \/ iv.views - net \in ViewSamples ]_vars

\* the history an update leaves, from the copy c it has read and its sample s: s is
\* the last element, before it come the most recent samples of c in their order,
\* and from 10 samples on the oldest ones are gone
Appended(h, c, s) ==
    /\ Len(h) = (IF Len(c) + 1 <= HistoryLimit THEN Len(c) + 1 ELSE HistoryLimit)
    /\ h[Len(h)] = s
    /\ \A i \in 1..(Len(h) - 1) : h[i] = c[Len(c) - (Len(h) - 1) + i]

\* C25: in every state the view_history of an item holds at most 10 samples, and
\* each update of the sweep or of the interval checker leaves the history it read
\* with the new (views, time) sample appended as the last element, cut to the 10
\* most recent samples in their order.
C25_HistoryBounded ==
    /\ [](\A k \in DOMAIN intervals : Len(intervals[k].view_history) <= HistoryLimit)
    /\ [][ /\ (KstWriteHistStep /\ TaskKey("kst") \in DOMAIN intervals) =>
                 Appended(intervals'[TaskKey("kst")].view_history, kst.hist,
                          [views |-> kst.views, time |-> kst.now])
           /\ (IvWriteHistStep /\ TaskKey("iv") \in DOMAIN intervals) =>
                 Appended(intervals'[TaskKey("iv")].view_history, iv.hist,
                          [views |-> iv.views, time |-> iv.now]) ]_vars

\* C25: the sweep and the interval checker have both appended to the 9 samples of
\* v3, and the oldest sample has gone.
C25_Witness ==
    LET h == intervals[<<"v3", "gB">>].view_history
    IN  /\ Len(h) = HistoryLimit
        /\ h[1] = PastFires[2]
        /\ h[HistoryLimit].time = StartTime
        /\ h[HistoryLimit - 1].time = StartTime

\* C26: an item overdue by several durations fires once, at the first tick that
\* finds it due: the fire stamps last_interval_run with the tick time of the pass,
\* the item has not fired at that tick time already, and it is found due again no
\* sooner than its duration (less the allowance of 0.0167) after that stamp.
C26_OverdueFiresOnce ==
    [][ /\ (IvWriteHistStep /\ TaskKey("iv") \in DOMAIN intervals) =>
              /\ intervals[TaskKey("iv")].last_interval_run # iv.now
              /\ intervals'[TaskKey("iv")].last_interval_run = iv.now
        /\ (IvDueStep /\ iv'.pc = "fetch" /\ TaskKey("iv") \in DOMAIN intervals
               /\ intervals[TaskKey("iv")].last_interval_run # Null) =>
              (iv.now - intervals[TaskKey("iv")].last_interval_run) * 1000
                 >= Head(iv.rows).hours * 1000 - JitterMilliMin ]_vars

\* C26: v3, 10 minutes past its last fire with a duration of 3, has fired at 17:00,
\* and the pass of 17:01 has gone by without a second fire.
C26_Witness ==
    /\ now = StartTime + 1
    /\ ivRan /\ iv.pc = "idle" /\ nerr["iv"] = 0
    /\ intervals[<<"v3", "gB">>].last_interval_run = StartTime
    /\ Len(SelectSeq(intervals[<<"v3", "gB">>].view_history,
                     LAMBDA e : e \notin Range(PastFires))) <= 2

\* a write of task t (at item t.rows[1]) has failed earlier in this pass
FailedInPass(name, t) ==
    \E f \in storeFails : f.task = name /\ f.key = TaskKey(name) /\ f.time = t.now

\* C27: once a write for an item has failed in a pass, the pass writes nothing more
\* and sends nothing for the item; and a million whose watermark write has failed
\* is not announced again.
C27_StoreFailureStopsItem ==
    /\ [](\A f \in storeFails :
             f.table = "milestones" =>
                sent[f.key][CurrentMillion(f.views)] = f.announced)
    /\ [][ /\ (kst.pc \in {"ms_read", "ms_send", "ms_write"} /\ kst' # kst
                  /\ FailedInPass("kst", kst))
              => UNCHANGED <<intervals, milestones, sent, lastFire>>
           /\ (iv.pc \in {"hist_read", "hist_write", "send"} /\ iv' # iv
                  /\ FailedInPass("iv", iv))
              => UNCHANGED <<intervals, milestones, sent, lastFire>> ]_vars

\* C28: forcecheck and viewsall, which store the measurement as last_views, leave
\* hours, last_interval_views and last_interval_run of the row as they were.
C28_ManualCheckKeepsInterval ==
    [][ \A k \in DOMAIN intervals :
          (/\ k \in DOMAIN intervals'
           /\ intervals'[k].last_views # 0
           /\ intervals'[k].last_views # intervals[k].last_views)
          => /\ intervals'[k].hours = intervals[k].hours
             /\ intervals'[k].last_interval_views = intervals[k].last_interval_views
             /\ intervals'[k].last_interval_run = intervals[k].last_interval_run ]_vars

\* C29: setmilestone on an item that has a milestones row, changing its ping text,
\* leaves last_million of the row as it was.
C29_SetMilestoneKeepsWatermark ==
    [][ \A k \in DOMAIN milestones :
          (k \in DOMAIN milestones' /\ milestones'[k].ping # milestones[k].ping)
          => milestones'[k].last_million = milestones[k].last_million ]_vars

\* C30: removevideo(v) in guild A leaves every intervals row and milestones row
\* keyed (v, B), B another guild, as it was.
C30_RemoveLeavesOtherTenants ==
    [][ \A v \in Videos, a \in Guilds :
          (VideoTracked(videos, v, a) /\ ~VideoTracked(videos', v, a)) =>
             \A b \in Guilds \ {a} :
                /\ <<v, b>> \in DOMAIN intervals =>
                      /\ <<v, b>> \in DOMAIN intervals'
                      /\ intervals'[<<v, b>>] = intervals[<<v, b>>]
                /\ <<v, b>> \in DOMAIN milestones =>
                      /\ <<v, b>> \in DOMAIN milestones'
                      /\ milestones'[<<v, b>>] = milestones[<<v, b>>] ]_vars

\* C31: the two schedulers keep their baselines apart: no step of the sweep changes
\* hours, last_interval_views or last_interval_run of a row, no step of the interval
\* checker changes kst_last_views or kst_last_run, a fire reports net = fetched -
\* the views of the fire whose stamp the row holds, and a sweep of an item no sweep
\* has stored before reports no net, whatever the interval checker has stored.
C31_SeparateBaselines ==
    [][ /\ (kst' # kst) =>
              \A k \in DOMAIN intervals :
                 /\ k \in DOMAIN intervals'
                 /\ intervals'[k].hours = intervals[k].hours
                 /\ intervals'[k].last_interval_views = intervals[k].last_interval_views
                 /\ intervals'[k].last_interval_run = intervals[k].last_interval_run
        /\ (iv' # iv) =>
              \A k \in DOMAIN intervals :
                 /\ k \in DOMAIN intervals'
                 /\ intervals'[k].kst_last_views = intervals[k].kst_last_views
                 /\ intervals'[k].kst_last_run = intervals[k].kst_last_run
        /\ (IvDueStep /\ iv'.pc = "fetch" /\ Overdue(TaskKey("iv"))
               /\ intervals[TaskKey("iv")].last_interval_run = lastFire[TaskKey("iv")][1]) =>
              iv'.prev = lastFire[TaskKey("iv")][3]
        /\ (IvSendStep /\ lastFire' # lastFire) =>
              lastFire'[TaskKey("iv")][4] = iv.views - iv.prev
        /\ (KstStatsStep /\ kst'.pc = "hist_write"
               /\ TaskKey("kst") \in DOMAIN intervals
               /\ intervals[TaskKey("kst")].kst_last_run = Null) =>
              kst'.prev = 0 ]_vars

\* C31: the checker has fired v3 at 17:00 on 11,900,000, the sweep of 17:00 has
\* stored 12,010,000, and the fire of 17:01 on 12,010,000 has reported +110,000.
C31_Witness ==
    /\ intervals[<<"v3", "gB">>].kst_last_run = StartTime
    /\ intervals[<<"v3", "gB">>].kst_last_views = 12010000
    /\ intervals[<<"v3", "gB">>].last_interval_run = StartTime + 1
    /\ lastFire[<<"v3", "gB">>] = <<StartTime + 1, 2, 12010000, 110000>>

\* C32: a failed fetch for a due item leaves its row as it was, the pass of the next
\* minute attempts the item again, and last_interval_run is set by nothing but the
\* fire that follows a fetch that returned a measurement.
C32_FailedFetchStaysDue ==
    [][ /\ (IvFetchStep /\ fetchFails' # fetchFails) =>
              /\ intervals' = intervals
              /\ lastFire' = lastFire
        /\ (IvDueStep /\ <<TaskKey("iv"), iv.now - 1>> \in fetchFails) =>
              iv'.pc = "fetch"
        /\ \A k \in DOMAIN intervals :
              (k \in DOMAIN intervals'
                 /\ intervals'[k].last_interval_run # intervals[k].last_interval_run) =>
                 /\ IvWriteHistStep
                 /\ TaskKey("iv") = k
                 /\ iv.views \in Measured
                 /\ intervals'[k].last_interval_run = iv.now ]_vars

\* C32: the fetch of v3, overdue at 17:00, failed in the pass of 17:00, and the
\* pass of 17:01 has fired it.
C32_Witness ==
    /\ <<<<"v3", "gB">>, StartTime>> \in fetchFails
    /\ intervals[<<"v3", "gB">>].last_interval_run = StartTime + 1
    /\ lastFire[<<"v3", "gB">>][1] = StartTime + 1

====
